---------------------------- MODULE Spec2Model ----------------------------
(***************************************************************************)
(* keras-text-cls: the two model builders TextCNN (model/text_cnn.py) and  *)
(* TextRCNN (model/text_rcnn.py).                                          *)
(*                                                                         *)
(* One object lifetime is modelled: the constructor runs once on a         *)
(* configuration drawn from bounded sets, it either raises (no instance)   *)
(* or leaves an instance whose attributes and layer graph are recorded,    *)
(* and the instance is then called any number of times.                    *)
(*                                                                         *)
(* Tensors are modelled by their shape without the batch axis while the    *)
(* graph is wired (as keras.layers.Input does), and by their full shape at *)
(* call time.  The layers follow the standalone keras 2.x package the      *)
(* source imports: Conv1D and MaxPooling1D use 'valid' padding, pooling    *)
(* strides default to the pool size, concatenate needs two inputs or more. *)
(* Dropout rates are in tenths (5 is 0.5).  None is the empty sequence and *)
(* a present optional value v is <<v>>.                                    *)
(***************************************************************************)
EXTENDS Integers, Sequences, FiniteSets, TLC

VARIABLES pc, args, self, last

vars == <<pc, args, self, last>>

---------------------------------------------------------------------------
(* Bounds of the explored inputs *)

MaxSeqLen == 2
MaxBranches == 2
MaxBatch == 2

None == <<>>
Some(v) == <<v>>

NumClassesChoices == {2, 3}
NumFiltersChoices == {2}
EmbeddingDimChoices == {2}
EmbeddingMatrixChoices == {None, Some([rows |-> 4, dim |-> 3])}
VocabSizeChoices == {None, Some(5)}
RankChoices == {1, 2, 3}
PoolingStrategies == {"REDUCE_MEAN", "REDUCE_MAX"}
HiddenUnitsChoices == {<<>>, <<3>>, <<2, 3>>, <<3, 2>>, <<-1>>}
HiddenActivations == {"relu", "tanh"}
DropoutChoices == {-5, 0, 5, 10}
RnnHiddenChoices == {1, 2}
ConvHiddenChoices == {2, 3}

(* all sequences over S of length at most n *)
SeqsUpTo(S, n) == UNION {[1..k -> S] : k \in 0..n}

FilterSizesChoices(max_seq_len) == SeqsUpTo(1..(max_seq_len + 1), MaxBranches)

---------------------------------------------------------------------------
(* Layers *)

NoShape == <<>>

(* a wired layer: its class, its constructor arguments and its output shape *)
Stage(layer, arg, kernel_size, activation, out) ==
    [layer |-> layer, arg |-> arg, kernel_size |-> kernel_size,
     activation |-> activation, out |-> out]

OK(stage) == [raised |-> "None", stage |-> stage]
Err(e) == [raised |-> e, stage |-> Stage("", 0, 0, "", NoShape)]

(* the embedding helper: a table from the matrix when one is given, else a
   fresh trainable table of vocab_size rows *)
init_embedding_layer(embedding_matrix, embedding_dim, embedding_vocab_size, embedding_trainable, max_seq_len) ==
    IF embedding_matrix # None
    THEN OK(Stage("Embedding", embedding_matrix[1].rows, 0,
                  IF embedding_trainable THEN "trainable" ELSE "frozen",
                  <<max_seq_len, embedding_matrix[1].dim>>))
    ELSE IF embedding_vocab_size = None \/ ~embedding_trainable
    THEN Err("EmbeddingConfigError")
    ELSE OK(Stage("Embedding", embedding_vocab_size[1], 0, "trainable",
                  <<max_seq_len, embedding_dim>>))

(* Conv1D(filters, kernel_size, activation) applied to x of shape
   (steps, channels): 'valid' padding leaves steps - kernel_size + 1 *)
Conv1D(filters, kernel_size, activation, x) ==
    IF x[1] - kernel_size + 1 < 1
    THEN Err("ValueError: Conv1D negative dimension")
    ELSE OK(Stage("Conv1D", filters, kernel_size, activation,
                  <<x[1] - kernel_size + 1, filters>>))

(* MaxPooling1D(pool_size) applied to x of shape (steps, channels) *)
MaxPooling1D(pool_size, x) ==
    IF pool_size < 1 \/ x[1] < pool_size
    THEN Err("ValueError: MaxPooling1D negative dimension")
    ELSE OK(Stage("MaxPooling1D", pool_size, 0, "",
                  <<((x[1] - pool_size) \div pool_size) + 1, x[2]>>))

Flatten(x) == OK(Stage("Flatten", 0, 0, "", <<x[1] * x[2]>>))

RECURSIVE SumOf(_)
SumOf(s) == IF s = <<>> THEN 0 ELSE Head(s) + SumOf(Tail(s))

(* concatenate(convs, axis=1) of flattened vectors; arg counts the inputs *)
concatenate(convs) ==
    IF Len(convs) < 2
    THEN Err("ValueError: Concatenate needs at least 2 inputs")
    ELSE OK(Stage("Concatenate", Len(convs), 0, "",
                  <<SumOf([i \in 1..Len(convs) |-> convs[i][1]])>>))

Dense(units, activation, x) ==
    IF units < 1
    THEN Err("ValueError: Dense negative dimension")
    ELSE OK(Stage("Dense", units, 0, activation, <<units>>))

Dropout(rate, x) == OK(Stage("Dropout", rate, 0, "", x))


---------------------------------------------------------------------------
(* Wiring helpers shared by the two constructors *)

NoStages == <<>>

(* hidden layers with the test dropout >= 0 *)
RECURSIVE layer_hiddens_dropout_at_zero(_, _, _)
layer_hiddens_dropout_at_zero(num_hidden_units, hidden_activation, dropout) ==
    IF num_hidden_units = <<>> THEN <<>>
    ELSE <<[layer |-> "Dense", arg |-> Head(num_hidden_units),
            activation |-> hidden_activation]>>
         \o (IF dropout >= 0
             THEN <<[layer |-> "Dropout", arg |-> dropout, activation |-> ""]>>
             ELSE <<>>)
         \o layer_hiddens_dropout_at_zero(Tail(num_hidden_units), hidden_activation, dropout)

(* hidden layers: a Dense per configured unit count, each followed by a
   Dropout when dropout > 0 *)
RECURSIVE layer_hiddens(_, _, _)
layer_hiddens(num_hidden_units, hidden_activation, dropout) ==
    IF num_hidden_units = <<>> THEN <<>>
    ELSE <<[layer |-> "Dense", arg |-> Head(num_hidden_units),
            activation |-> hidden_activation]>>
         \o (IF dropout > 0
             THEN <<[layer |-> "Dropout", arg |-> dropout, activation |-> ""]>>
             ELSE <<>>)
         \o layer_hiddens(Tail(num_hidden_units), hidden_activation, dropout)

(* for hidden in layer_hiddens: x = hidden(x) *)
RECURSIVE apply_hiddens(_, _)
apply_hiddens(hiddens, x) ==
    IF hiddens = <<>> THEN [raised |-> "None", stages |-> NoStages, out |-> x]
    ELSE LET h == Head(hiddens)
             r == IF h.layer = "Dense" THEN Dense(h.arg, h.activation, x)
                                       ELSE Dropout(h.arg, x)
         IN IF r.raised # "None"
            THEN [raised |-> r.raised, stages |-> NoStages, out |-> NoShape]
            ELSE LET rest == apply_hiddens(Tail(hiddens), r.stage.out)
                 IN [raised |-> rest.raised,
                     stages |-> IF rest.raised = "None"
                                THEN <<r.stage>> \o rest.stages ELSE NoStages,
                     out |-> rest.out]

output_activation(multi_label) == IF multi_label THEN "sigmoid" ELSE "softmax"

(* layer_output sized one unit too wide *)
layer_output_extra_unit(num_classes, multi_label, x) == Dense(num_classes + 1, output_activation(multi_label), x)

layer_output(num_classes, multi_label, x) == Dense(num_classes, output_activation(multi_label), x)

NoInstance == [name |-> "NoInstance"]

Raise(e) == [raised |-> e, self |-> NoInstance]

---------------------------------------------------------------------------
(* TextCNN *)

(* the window without the + 1 *)
pool_size_off_by_one(max_seq_len, fsz) == max_seq_len - fsz

(* the MaxPooling1D window of the branch of filter size fsz *)
pool_size(max_seq_len, fsz) == max_seq_len - fsz + 1

(* a branch whose convolution pads ('same') and whose pooling is global *)
conv_branch_same_padding(x, num_filters, fsz, max_seq_len) ==
    [raised |-> "None",
     stages |-> <<Stage("Conv1D", num_filters, fsz, "relu", <<x[1], num_filters>>),
                  Stage("MaxPooling1D", x[1], 0, "", <<1, num_filters>>),
                  Stage("Flatten", 0, 0, "", <<num_filters>>)>>]

(* one branch: l_conv, l_pool, l_flatten applied to the embedded input x *)
conv_branch(x, num_filters, fsz, max_seq_len) ==
    LET c == Conv1D(num_filters, fsz, "relu", x)
    IN IF c.raised # "None" THEN [raised |-> c.raised, stages |-> NoStages]
       ELSE LET p == MaxPooling1D(pool_size(max_seq_len, fsz), c.stage.out)
            IN IF p.raised # "None" THEN [raised |-> p.raised, stages |-> NoStages]
               ELSE [raised |-> "None",
                     stages |-> <<c.stage, p.stage, Flatten(p.stage.out).stage>>]

(* the error of the first element that raised, "None" when none did *)
RECURSIVE FirstRaised(_)
FirstRaised(rs) ==
    IF rs = <<>> THEN "None"
    ELSE IF Head(rs).raised # "None" THEN Head(rs).raised
    ELSE FirstRaised(Tail(rs))

(* the embedding call with a fallback vocabulary size and a trainable table *)
layer_embedding_cnn_fallback(a) == init_embedding_layer(a.embedding_matrix, a.embedding_dim, IF a.embedding_vocab_size = None THEN Some(1) ELSE a.embedding_vocab_size, TRUE, a.max_seq_len)

layer_embedding_cnn(a) == init_embedding_layer(a.embedding_matrix, a.embedding_dim, a.embedding_vocab_size, a.embedding_trainable, a.max_seq_len)

(* the dropout between the concatenation and the dense layers *)
layer_dropout(dropout, x) == IF dropout > 0 THEN <<Dropout(dropout, x).stage>> ELSE NoStages

TextCNN_attrs(a, model) ==
    [name |-> "TextCNN",
     num_classes |-> a.num_classes,
     embedding_dim |-> a.embedding_dim,
     embedding_matrix |-> a.embedding_matrix,
     embedding_trainable |-> a.embedding_trainable,
     pooling_strategy |-> a.pooling_strategy,
     max_seq_len |-> a.max_seq_len,
     num_hidden_units |-> a.num_hidden_units,
     hidden_activation |-> a.hidden_activation,
     dropout |-> a.dropout,
     multi_label |-> a.multi_label,
     num_filters |-> a.num_filters,
     filter_sizes |-> a.filter_sizes,
     model |-> model]

TextCNN_init(a) ==
    LET emb == layer_embedding_cnn(a)
    IN IF emb.raised # "None" THEN Raise(emb.raised) ELSE
    LET x == emb.stage.out
        brs == [i \in 1..Len(a.filter_sizes) |->
                   conv_branch(x, a.num_filters, a.filter_sizes[i], a.max_seq_len)]
    IN IF FirstRaised(brs) # "None" THEN Raise(FirstRaised(brs)) ELSE
    LET convs == [i \in 1..Len(brs) |-> brs[i].stages[3].out]
        cat == concatenate(convs)
    IN IF cat.raised # "None" THEN Raise(cat.raised) ELSE
    LET drop == layer_dropout(a.dropout, cat.stage.out)
        dropped == IF drop = NoStages THEN cat.stage.out ELSE drop[1].out
        hid == apply_hiddens(layer_hiddens(a.num_hidden_units, a.hidden_activation, a.dropout),
                             dropped)
    IN IF hid.raised # "None" THEN Raise(hid.raised) ELSE
    LET out == layer_output(a.num_classes, a.multi_label, hid.out)
    IN IF out.raised # "None" THEN Raise(out.raised) ELSE
       [raised |-> "None",
        self |-> TextCNN_attrs(a,
                    [input |-> <<a.max_seq_len>>,
                     embedding |-> emb.stage,
                     branches |-> [i \in 1..Len(brs) |-> brs[i].stages],
                     concat |-> cat.stage,
                     concat_of |-> [i \in 1..Len(brs) |-> brs[i].stages[1].kernel_size],
                     head |-> drop \o hid.stages \o <<out.stage>>,
                     output |-> out.stage.out])]

(* self.model(inputs): the graph applied to a batch *)
model_apply(model, inputs) == <<inputs[1]>> \o model.output

(* call without the rank assertion: the input is taken as it comes *)
TextCNN_call_unchecked(obj, inputs) ==
    [raised |-> "None",
     result |-> <<IF inputs = <<>> THEN 1 ELSE inputs[1]>> \o obj.model.output,
     invoked |-> TRUE]

TextCNN_call(obj, inputs) ==
    IF Len(inputs) # 2
    THEN [raised |-> "AssertionError", result |-> NoShape, invoked |-> FALSE]
    ELSE [raised |-> "None", result |-> model_apply(obj.model, inputs), invoked |-> TRUE]

---------------------------------------------------------------------------
(* TextRCNN *)

Reverse(s) == [i \in 1..Len(s) |-> s[Len(s) - i + 1]]

(* LSTM(units, return_sequences=True, go_backwards) on x of shape
   (steps, channels) *)
LSTM(units, go_backwards, x) == OK(Stage("LSTM", units, 0, IF go_backwards THEN "go_backwards" ELSE "", <<x[1], units>>))

(* what an LSTM has read when it emits its i-th output: with go_backwards
   the input sequence is consumed from its last position *)
LSTM_reads(go_backwards, x_at) ==
    LET fed == IF go_backwards THEN Reverse(x_at) ELSE x_at
    IN [i \in 1..Len(x_at) |-> [k \in 1..i |-> fed[k][1]]]

(* Lambda(lambda x: K.reverse(x, axes=1)) *)
layer_reverse(x) == OK(Stage("Lambda", 0, 0, "K.reverse(axes=1)", x))

(* the backward output left in the order the layer emitted it *)
layer_reverse_at_missing(x_at) == x_at

layer_reverse_at(x_at) == Reverse(x_at)

(* concatenate([forward, x, backward], axis=2) *)
concatenate_axis2(forward, x, backward) == OK(Stage("Concatenate", 3, 0, "", <<x[1], forward[2] + x[2] + backward[2]>>))

concatenate_axis2_at(forward_at, x_at, backward_at) == [i \in 1..Len(x_at) |-> <<forward_at[i], x_at[i], backward_at[i]>>]

(* pooling that follows pooling_strategy *)
layer_max_pool_by_strategy(a, x) == OK(Stage("Lambda", 0, 0, IF a.pooling_strategy = "REDUCE_MEAN" THEN "K.mean(axis=1)" ELSE "K.max(axis=1)", <<x[2]>>))

(* Lambda(lambda x: K.max(x, axis=1)) *)
layer_max_pool(a, x) == OK(Stage("Lambda", 0, 0, "K.max(axis=1)", <<x[2]>>))

layer_embedding_rcnn(a) == init_embedding_layer(a.embedding_matrix, a.embedding_dim, a.embedding_vocab_size, a.embedding_trainable, a.max_seq_len)

TextRCNN_attrs(a, model) ==
    [name |-> "TextRCNN",
     num_classes |-> a.num_classes,
     embedding_dim |-> a.embedding_dim,
     embedding_matrix |-> a.embedding_matrix,
     embedding_trainable |-> a.embedding_trainable,
     pooling_strategy |-> a.pooling_strategy,
     max_seq_len |-> a.max_seq_len,
     num_hidden_units |-> a.num_hidden_units,
     hidden_activation |-> a.hidden_activation,
     dropout |-> a.dropout,
     multi_label |-> a.multi_label,
     rnn_hidden_units |-> a.rnn_hidden_units,
     model |-> model]

TextRCNN_init(a) ==
    LET emb == layer_embedding_rcnn(a)
    IN IF emb.raised # "None" THEN Raise(emb.raised) ELSE
    LET x == emb.stage.out
        x_at == [i \in 1..a.max_seq_len |-> <<i>>]
        forward == LSTM(a.rnn_hidden_units, FALSE, x).stage
        forward_at == LSTM_reads(FALSE, x_at)
        backward_raw == LSTM(a.rnn_hidden_units, TRUE, x).stage
        backward == layer_reverse(backward_raw.out).stage
        backward_at == layer_reverse_at(LSTM_reads(TRUE, x_at))
        together == concatenate_axis2(forward.out, x, backward.out).stage
        semantic == Conv1D(a.conv_hidden_units, 1, "tanh", together.out)
    IN IF semantic.raised # "None" THEN Raise(semantic.raised) ELSE
    LET pooled == layer_max_pool(a, semantic.stage.out).stage
        hid == apply_hiddens(layer_hiddens(a.num_hidden_units, a.hidden_activation, a.dropout),
                             pooled.out)
    IN IF hid.raised # "None" THEN Raise(hid.raised) ELSE
    LET out == layer_output(a.num_classes, a.multi_label, hid.out)
    IN IF out.raised # "None" THEN Raise(out.raised) ELSE
       [raised |-> "None",
        self |-> TextRCNN_attrs(a,
                    [input |-> <<a.max_seq_len>>,
                     embedding |-> emb.stage,
                     forward |-> forward,
                     backward |-> backward_raw,
                     reverse |-> backward,
                     together |-> together,
                     together_at |-> concatenate_axis2_at(forward_at, x_at, backward_at),
                     semantic |-> semantic.stage,
                     max_pool |-> pooled,
                     head |-> hid.stages \o <<out.stage>>,
                     output |-> out.stage.out])]

TextRCNN_call(obj, inputs) ==
    IF Len(inputs) # 2
    THEN [raised |-> "AssertionError", result |-> NoShape, invoked |-> FALSE]
    ELSE [raised |-> "None", result |-> model_apply(obj.model, inputs), invoked |-> TRUE]

---------------------------------------------------------------------------
(* The state machine *)

CommonArgs ==
    [num_classes : NumClassesChoices,
     embedding_dim : EmbeddingDimChoices,
     embedding_matrix : EmbeddingMatrixChoices,
     embedding_trainable : BOOLEAN,
     embedding_vocab_size : VocabSizeChoices,
     pooling_strategy : PoolingStrategies,
     max_seq_len : 1..MaxSeqLen,
     num_hidden_units : HiddenUnitsChoices,
     hidden_activation : HiddenActivations,
     dropout : DropoutChoices,
     multi_label : BOOLEAN]

(* r extended with the field f |-> v *)
With(r, f, v) == [k \in DOMAIN r \cup {f} |-> IF k = f THEN v ELSE r[k]]

NoArgs == [cls |-> "None"]

NoCall == [op |-> "none", inputs |-> NoShape, raised |-> "None", result |-> NoShape, invoked |-> FALSE]

(* an input tensor of the given rank: (batch, max_seq_len) at rank 2 *)
InputShape(rank, batch, max_seq_len) == [i \in 1..rank |-> IF i = 1 THEN batch ELSE IF i = 2 THEN max_seq_len ELSE 1]

Init ==
    /\ pc = "new"
    /\ args = NoArgs
    /\ self = NoInstance
    /\ last = NoCall

Constructed(r, a) ==
    /\ args' = a
    /\ self' = r.self
    /\ pc' = IF r.raised = "None" THEN "constructed" ELSE "failed"
    /\ last' = [NoCall EXCEPT !.op = "init", !.raised = r.raised]

NewTextCNN ==
    /\ pc = "new"
    /\ \E c \in CommonArgs, num_filters \in NumFiltersChoices :
         \E filter_sizes \in FilterSizesChoices(c.max_seq_len) :
            LET a == With(With(With(c, "cls", "TextCNN"), "num_filters", num_filters), "filter_sizes", filter_sizes)
            IN Constructed(TextCNN_init(a), a)

NewTextRCNN ==
    /\ pc = "new"
    /\ \E c \in CommonArgs, rnn_hidden_units \in RnnHiddenChoices, conv_hidden_units \in ConvHiddenChoices :
            LET a == With(With(With(c, "cls", "TextRCNN"), "rnn_hidden_units", rnn_hidden_units), "conv_hidden_units", conv_hidden_units)
            IN Constructed(TextRCNN_init(a), a)

Called(r, inputs) ==
    /\ last' = [op |-> "call", inputs |-> inputs, raised |-> r.raised, result |-> r.result, invoked |-> r.invoked]
    /\ UNCHANGED <<pc, args, self>>

CallTextCNN ==
    /\ pc = "constructed"
    /\ self.name = "TextCNN"
    /\ \E rank \in RankChoices, batch \in 1..MaxBatch :
         LET inputs == InputShape(rank, batch, self.max_seq_len)
         IN Called(TextCNN_call(self, inputs), inputs)

CallTextRCNN ==
    /\ pc = "constructed"
    /\ self.name = "TextRCNN"
    /\ \E rank \in RankChoices, batch \in 1..MaxBatch :
         LET inputs == InputShape(rank, batch, self.max_seq_len)
         IN Called(TextRCNN_call(self, inputs), inputs)

Next == NewTextCNN \/ NewTextRCNN \/ CallTextCNN \/ CallTextRCNN

Spec == Init /\ [][Next]_vars

---------------------------------------------------------------------------
(* Vocabulary of the properties *)

EmbeddingOK(a) == a.embedding_matrix # None \/ (a.embedding_vocab_size # None /\ a.embedding_trainable)

DropoutInRange(a) == 0 <= a.dropout /\ a.dropout <= 10

IsCNN == args.cls = "TextCNN"

IsRCNN == args.cls = "TextRCNN"

AllFilters(a, P(_)) == \A i \in 1..Len(a.filter_sizes) : P(a.filter_sizes[i])

(* a call with a rank-2 input returned (batch, num_classes) *)
CallReturnsScores == last.raised = "None" /\ last.invoked /\ last.result = <<last.inputs[1], args.num_classes>>

(* the configurations the claim C1 lists as valid *)
ListedValid(a) ==
    /\ a.max_seq_len > 0
    /\ a.num_classes > 0
    /\ DropoutInRange(a)
    /\ EmbeddingOK(a)
    /\ a.cls = "TextCNN" => AllFilters(a, LAMBDA w : w <= a.max_seq_len)

(* those among them that the layers accept *)
Buildable(a) ==
    /\ ListedValid(a)
    /\ \A i \in 1..Len(a.num_hidden_units) : a.num_hidden_units[i] >= 1
    /\ a.embedding_dim >= 1
    /\ a.cls = "TextCNN" =>
          /\ Len(a.filter_sizes) >= 2
          /\ AllFilters(a, LAMBDA w : w >= 1)
          /\ a.num_filters >= 1
    /\ a.cls = "TextRCNN" => a.rnn_hidden_units >= 1 /\ a.conv_hidden_units >= 1

---------------------------------------------------------------------------
(* C1, as stated: every configuration with max_seq_len > 0, filter sizes
   <= max_seq_len, num_classes > 0, dropout in [0,1] and any hidden unit
   list constructs, and a rank-2 call then returns (batch, num_classes). *)
C1_AnyListedConfigBuilds ==
    (pc # "new" /\ ListedValid(args)) =>
        /\ pc = "constructed"
        /\ (last.op = "call" /\ Len(last.inputs) = 2) => CallReturnsScores

(* C1, amended: a listed configuration that also has positive layer sizes
   and, for TextCNN, at least two filter sizes each >= 1, constructs, and
   every call with an input of shape (batch, max_seq_len) returns a result
   of shape (batch, num_classes). *)
C1_BuildableConfigBuilds ==
    (pc # "new" /\ Buildable(args)) =>
        /\ pc = "constructed"
        /\ last.op = "init" => last.raised = "None"
        /\ (last.op = "call" /\ Len(last.inputs) = 2) => CallReturnsScores

C1_Witness ==
    /\ pc = "constructed" /\ IsCNN /\ Buildable(args)
    /\ last.op = "call" /\ last.inputs = <<MaxBatch, args.max_seq_len>>
    /\ last.result = <<MaxBatch, args.num_classes>>

(* C2: a call whose input rank is not 2 raises the assertion error, never
   invokes the layer graph and returns nothing. *)
C2_RankAsserted ==
    (last.op = "call" /\ Len(last.inputs) # 2) =>
        /\ last.raised = "AssertionError"
        /\ ~last.invoked
        /\ last.result = NoShape

C2_Witness ==
    /\ last.op = "call" /\ Len(last.inputs) = 3
    /\ last.raised = "AssertionError" /\ self.name = "TextCNN"

(* C3: a TextCNN construction with a filter size above max_seq_len raises
   inside the constructor and leaves no instance. *)
C3_OversizedFilterFails ==
    (pc # "new" /\ IsCNN /\ ~AllFilters(args, LAMBDA w : w <= args.max_seq_len)) =>
        /\ pc = "failed"
        /\ self = NoInstance
        /\ last.op = "init" /\ last.raised # "None"

C3_Witness ==
    /\ pc = "failed" /\ IsCNN /\ EmbeddingOK(args)
    /\ \E i \in 1..Len(args.filter_sizes) : args.filter_sizes[i] > args.max_seq_len
    /\ last.raised = "ValueError: Conv1D negative dimension"

(* C4, as stated: a construction with a dropout rate below 0 or above 1
   fails in the constructor. *)
C4_DropoutRangeRejected ==
    (pc # "new" /\ ~DropoutInRange(args)) => (pc = "failed" /\ self = NoInstance)

(* C5: a construction with neither an embedding matrix nor a vocabulary
   size raises a configuration error and leaves no instance. *)
C5_NoVocabularyFails ==
    (pc # "new" /\ args.embedding_matrix = None /\ args.embedding_vocab_size = None) =>
        /\ pc = "failed"
        /\ self = NoInstance
        /\ last.op = "init" /\ last.raised = "EmbeddingConfigError"

C5_Witness ==
    /\ pc = "failed" /\ IsRCNN
    /\ args.embedding_matrix = None /\ args.embedding_vocab_size = None
    /\ ~args.embedding_trainable
    /\ last.raised = "EmbeddingConfigError"

ListedFields(cls) ==
    {"num_classes", "embedding_dim", "max_seq_len", "dropout", "num_hidden_units",
     "hidden_activation", "multi_label"}
    \cup (IF cls = "TextCNN" THEN {"num_filters", "filter_sizes"}
                             ELSE {"rnn_hidden_units", "conv_hidden_units"})

(* C6, as stated: the instance holds every listed configuration field with
   the value passed to the constructor, whatever calls were made. *)
C6_ConfigRecordHeld ==
    pc = "constructed" =>
        \A f \in ListedFields(args.cls) : f \in DOMAIN self /\ self[f] = args[f]

(* C7: in TextCNN with every filter size w in 1..max_seq_len, branch i has a
   convolution of width w leaving max_seq_len - w + 1 steps, a pooling
   window of that size and a flattened length num_filters; the
   concatenation takes the branches in filter_sizes order and has length
   num_filters * len(filter_sizes). *)
C7_BranchShapes ==
    (pc # "new" /\ IsCNN /\ EmbeddingOK(args)
       /\ AllFilters(args, LAMBDA w : 1 <= w /\ w <= args.max_seq_len)) =>
        /\ \A i \in 1..Len(args.filter_sizes) :
              LET w == args.filter_sizes[i]
                  b == conv_branch(layer_embedding_cnn(args).stage.out, args.num_filters, w, args.max_seq_len)
              IN /\ b.raised = "None"
                 /\ b.stages[1].out = <<args.max_seq_len - w + 1, args.num_filters>>
                 /\ b.stages[2].arg = args.max_seq_len - w + 1
                 /\ b.stages[2].out = <<1, args.num_filters>>
                 /\ b.stages[3].out = <<args.num_filters>>
                 /\ pc = "constructed" => self.model.branches[i] = b.stages
        /\ pc = "constructed" =>
              /\ Len(self.model.branches) = Len(args.filter_sizes)
              /\ self.model.concat_of = args.filter_sizes
              /\ self.model.concat.out = <<args.num_filters * Len(args.filter_sizes)>>

C7_Witness ==
    /\ pc = "constructed" /\ IsCNN
    /\ Len(args.filter_sizes) = MaxBranches
    /\ args.filter_sizes[1] # args.filter_sizes[MaxBranches]
    /\ self.model.concat.out = <<args.num_filters * MaxBranches>>

(* the stages the claim C8 lists after the pooled feature vector *)
ExpectedHiddens(a) ==
    LET u == a.num_hidden_units
    IN IF a.dropout > 0
       THEN [j \in 1..(2 * Len(u)) |->
                IF j % 2 = 1
                THEN Stage("Dense", u[(j + 1) \div 2], 0, a.hidden_activation, <<u[(j + 1) \div 2]>>)
                ELSE Stage("Dropout", a.dropout, 0, "", <<u[j \div 2]>>)]
       ELSE [j \in 1..Len(u) |-> Stage("Dense", u[j], 0, a.hidden_activation, <<u[j]>>)]

ExpectedOutput(a) == Stage("Dense", a.num_classes, 0, IF a.multi_label THEN "sigmoid" ELSE "softmax", <<a.num_classes>>)

(* every wired layer of the graph of an instance *)
LayersOf(obj) ==
    LET m == obj.model
        range(q) == {q[i] : i \in DOMAIN q}
    IN {m.embedding.layer} \cup {st.layer : st \in range(m.head)}
       \cup (IF obj.name = "TextCNN"
             THEN {m.concat.layer} \cup UNION {{st.layer : st \in range(br)} : br \in range(m.branches)}
             ELSE {m.forward.layer, m.backward.layer, m.reverse.layer, m.together.layer,
                   m.semantic.layer, m.max_pool.layer})

(* C8: after the pooled vector come, in order, a Dense of n units with
   hidden_activation per configured n, each followed by a Dropout exactly
   when dropout > 0, then a Dense of num_classes units with sigmoid when
   multi_label and softmax otherwise; TextCNN puts one more Dropout in
   front exactly when dropout > 0; with dropout = 0 the graph has no
   Dropout. *)
C8_HeadStages ==
    pc = "constructed" =>
        /\ IsRCNN => self.model.head = ExpectedHiddens(args) \o <<ExpectedOutput(args)>>
        /\ IsCNN => self.model.head =
              (IF args.dropout > 0
               THEN <<Stage("Dropout", args.dropout, 0, "", self.model.concat.out)>>
               ELSE <<>>)
              \o ExpectedHiddens(args) \o <<ExpectedOutput(args)>>
        /\ args.dropout = 0 => "Dropout" \notin LayersOf(self)

C8_Witness ==
    /\ pc = "constructed" /\ IsCNN /\ args.dropout > 0 /\ ~args.multi_label
    /\ args.num_hidden_units = <<2, 3>>
    /\ Len(self.model.head) = 6

(* C9: at every position t the width-1 convolution of TextRCNN receives
   [forward state after reading 1..t, embedding of t, backward state after
   reading max_seq_len down to t], of width rnn_hidden_units + embedding
   width + rnn_hidden_units. *)
C9_TogetherAligned ==
    (pc = "constructed" /\ IsRCNN) =>
        LET m == self.model
            L == args.max_seq_len
        IN /\ Len(m.together_at) = L
           /\ \A t \in 1..L :
                 m.together_at[t] = << [k \in 1..t |-> k], <<t>>, [k \in 1..(L - t + 1) |-> L - k + 1] >>
           /\ m.together.out = <<L, args.rnn_hidden_units + m.embedding.out[2] + args.rnn_hidden_units>>
           /\ m.semantic.kernel_size = 1
           /\ m.semantic.out = <<L, args.conv_hidden_units>>

C9_Witness ==
    /\ pc = "constructed" /\ IsRCNN /\ args.max_seq_len >= 2
    /\ self.model.together_at[1][3] = [k \in 1..args.max_seq_len |-> args.max_seq_len - k + 1]
    /\ self.model.together_at[1][1] = <<1>>

(* the construction of the same class on other arguments *)
Rebuilt(a) == IF a.cls = "TextCNN" THEN TextCNN_init(a) ELSE TextRCNN_init(a)

(* C10: the construction with the other pooling_strategy raises the same
   error or builds the same layer graph, whose pooling is max pooling over
   the sequence axis, and a call on it gives the same outcome. *)
C10_PoolingStrategyIgnored ==
    pc # "new" =>
        \A ps \in PoolingStrategies \ {args.pooling_strategy} :
            LET other == Rebuilt([args EXCEPT !.pooling_strategy = ps])
            IN /\ (other.raised = "None") <=> (pc = "constructed")
               /\ last.op = "init" => other.raised = last.raised
               /\ pc = "constructed" =>
                     /\ other.self.model = self.model
                     /\ IsCNN => \A i \in 1..Len(self.model.branches) :
                                    self.model.branches[i][2].layer = "MaxPooling1D"
                     /\ IsRCNN => self.model.max_pool.activation = "K.max(axis=1)"
                     /\ last.op = "call" =>
                           LET again == IF IsCNN THEN TextCNN_call(other.self, last.inputs)
                                                 ELSE TextRCNN_call(other.self, last.inputs)
                           IN /\ again.raised = last.raised
                              /\ again.result = last.result

C10_Witness ==
    /\ pc = "constructed" /\ IsRCNN /\ args.pooling_strategy = "REDUCE_MEAN"
    /\ self.model.max_pool.activation = "K.max(axis=1)"
    /\ last.op = "call" /\ last.raised = "None"

============================================================================
